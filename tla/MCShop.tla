------------------------------- MODULE MCShop -------------------------------
\* The books of a shop, for TLC: model values.
EXTENDS Shop, TLC

CONSTANTS c1, c2, e1, s1, l1, k1, k2, k3

Anybody == Permutations({c1, c2}) \cup Permutations({k2, k3})
=============================================================================
