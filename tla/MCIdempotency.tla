--------------------------- MODULE MCIdempotency ---------------------------
(* Instances of Idempotency for TLC. *)
EXTENDS Idempotency, TLC

CONSTANTS c1, c2, c3, k1, h1, h2, b1

ThreeConnections == {c1, c2, c3}
OneKey == {k1}
TwoHashes == {h1, h2}
OneBody == {b1}
=============================================================================
