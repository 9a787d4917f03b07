---------------------------- MODULE MCTokenRefresh ----------------------------
(* TokenRefresh for TLC.                                                     *)
EXTENDS TokenRefresh

CONSTANTS w1, w2, w3

TwoWorkers   == {w1, w2}
ThreeWorkers == {w1, w2, w3}
=============================================================================
