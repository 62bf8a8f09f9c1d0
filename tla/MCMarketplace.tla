--------------------------- MODULE MCMarketplace ---------------------------
(* Instances of Marketplace for TLC. *)
EXTENDS Marketplace, TLC

CONSTANTS t1, t2, p1, p2, r1, r2

TwoTransactions == {t1, t2}
OneProvider == {p1}
TwoProviders == {p1, p2}
OneRequest == {r1}
TwoRequests == {r1, r2}
OneAmount == {100}
TwoAmounts == {100, 200}

Symmetry == Permutations(TwoTransactions) \cup Permutations(TwoProviders)
=============================================================================
