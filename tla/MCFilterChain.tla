----------------------------- MODULE MCFilterChain -----------------------------
(* FilterChain for TLC.                                                      *)
EXTENDS FilterChain

CONSTANTS w1, w2, w3, s1, s2, s3, s4

TwoWorkers   == {w1, w2}
ThreeWorkers == {w1, w2, w3}
Stores       == {s1, s2, s3, s4}
=============================================================================
