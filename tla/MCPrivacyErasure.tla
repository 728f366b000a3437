--------------------------- MODULE MCPrivacyErasure ---------------------------
EXTENDS PrivacyErasure, TLC

CONSTANTS u1, u2, g1, g2, n1, n2, a1, a2, o1, o2

MCSurrogate == (u1 :> g1) @@ (u2 :> g2)

Symmetry ==
    Permutations({a1, a2}) \cup Permutations({o1, o2}) \cup Permutations({n1, n2})
        \cup {(u1 :> u2) @@ (u2 :> u1) @@ (g1 :> g2) @@ (g2 :> g1)}
===============================================================================
