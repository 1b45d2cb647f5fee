----------------------------- MODULE MCGarbled -----------------------------
EXTENDS GarbledCircuit

\* A hash on two-bit blocks that is not linear in the block and depends on key
\* and tweak.
MixedHash(k, x, t) ==
    (IF 0 \in x /\ (1 \in x \/ t % 3 = k) THEN {0} ELSE {})
      \cup (IF (0 \in x) # (t % 2 = k /\ 1 \notin x) THEN {1} ELSE {})
=============================================================================
