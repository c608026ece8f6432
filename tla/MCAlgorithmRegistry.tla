------------------------- MODULE MCAlgorithmRegistry -------------------------
(* Two names, one of them a default, and every whitelist of them.          *)
EXTENDS AlgorithmRegistry, TLC

CONSTANTS t1, t2, hs256, custom, h1, h2

AllWhitelists == SUBSET {hs256, custom}

Symmetric == Permutations({t1, t2}) \cup Permutations({h1, h2})

=============================================================================
