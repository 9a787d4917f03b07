----------------------------- MODULE MCAsyncService -----------------------------
(* AsyncService for TLC.                                                     *)
EXTENDS AsyncService

CONSTANTS c1, c2, c3, w1, w2

Calls == {c1, c2, c3}
=============================================================================
