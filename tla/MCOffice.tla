------------------------------ MODULE MCOffice ------------------------------
\* The office around a shop, for TLC: model values.
EXTENDS Office, TLC

CONSTANTS c1, c2, e1, s1, k1, k2, k3, n1, n2

\* An owner who keeps two on the shelf, and one who leaves it to the demand.
MCPolicies == {[min |-> 2, target |-> 2], [min |-> 0, target |-> 0]}

\* A date that has passed already, as that of an order somebody forgot to send.
MCPromised == {-1}

Anybody ==
    Permutations({c1, c2}) \cup Permutations({k2, k3}) \cup Permutations({n1, n2})
=============================================================================
