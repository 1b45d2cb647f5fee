------------------------------ MODULE KeySums ------------------------------
(***************************************************************************)
(* A key that parts are added to by the circuits of Arithmetic, one after  *)
(* the other: the three parts of a replicated sharing, or the left half of *)
(* a hash at each level of a derivation path.                              *)
(***************************************************************************)
EXTENDS Arithmetic, FiniteSets

CONSTANT MaxAdds   \* most parts added to one key, for every bit length

ASSUME SumBounds == \A n \in DOMAIN MaxAdds : n \in Nat \ {0} /\ MaxAdds[n] \in Nat

VARIABLES
    size,   \* bit length of the numbers
    prime,  \* the modulus, of at most size bits
    key,    \* the sum so far
    parts   \* what it is the sum of

sumvars == <<size, prime, key, parts>>

Numbers == 0..(2^size - 1)

SumInit ==
    /\ size \in DOMAIN MaxAdds
    /\ prime \in 1..(2^size - 1)
    /\ key = Binary(0, size) /\ parts = <<>>

\* A part is added: a canonical scalar is below the modulus, but the left half
\* of a hash is any number of size bits.
AddPart ==
    /\ Len(parts) < MaxAdds[size]
    /\ \E y \in Numbers :
         key' = ModAdd(key, Binary(y, size), prime) /\ parts' = Append(parts, y)
    /\ UNCHANGED <<size, prime>>

Added == Len(parts) = MaxAdds[size] /\ UNCHANGED sumvars

SumNext == AddPart \/ Added

SumSpec == SumInit /\ [][SumNext]_sumvars

-----------------------------------------------------------------------------
(* Properties.                                                             *)

Total == LET upto[i \in 0..Len(parts)] == IF i = 0 THEN 0 ELSE upto[i - 1] + parts[i]
         IN  upto[Len(parts)]

\* The key is the reduced sum of its parts, however many were added and
\* whatever the modulus: build_mod_add_circut keeps what the next addition and
\* rss_to_y rely on, a number below the modulus.  One part that is not below
\* the modulus leaves a key that need not be either, but is still congruent to
\* the sum, then and after further reduced parts.
SumExact ==
    LET unreduced == {i \in DOMAIN parts : parts[i] >= prime} IN
    /\ unreduced = {} => Number(key) = Total % prime
    /\ Cardinality(unreduced) = 1 => Number(key) % prime = Total % prime

\* Comparison and subtraction of a key agree with integers for every other
\* number, equal ones, zero and the largest included.
ComparesExact == Len(parts) = 1 => \A n \in Numbers :
        /\ CompareGe(key, Binary(n, size)) = 1 <=> Number(key) >= n
        /\ CompareGe(Binary(n, size), key) = 1 <=> n >= Number(key)
        /\ CompareEq(key, Binary(n, size)) = 1 <=> Number(key) = n
        /\ size = 2 => Comparison(key, Binary(n, 2)) = CompareEq(key, Binary(n, 2))
        /\ Number(SubtractOrder(key, n)) = (Number(key) - n + 2^size) % 2^size

\* rss_to_y over three additions: the verification bit is 1 exactly when every
\* two parties gave the same part, and then the output is the shared scalar, if
\* its parts are scalars; checked on the three parts and what a party may have
\* changed in its own.
SharingsVerified ==
    Len(parts) = 3 => \A i \in 1..3, n \in Numbers :
        LET next == [j \in 1..3 |-> Binary(parts[j], size)]
            true == [j \in 1..3 |-> next[IF j = 1 THEN 3 ELSE j - 1]]
            prev == [true EXCEPT ![i] = Binary(n, size)]
            out  == RssToYVerification(next, prev, prime)
        IN  /\ out[1] = 1 <=> prev = true
            /\ (\A j \in 1..3 : parts[j] < prime) => Tail(out) = key

=============================================================================
