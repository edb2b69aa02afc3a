----------------------------- MODULE MCSuperuser -----------------------------
EXTENDS Superuser, TLC

\* Nothing but equality is asked of any of them.
Symmetry ==
    UNION {Permutations(Operators), Permutations(Tokens), Permutations(Requests), Permutations(Pendings)}
=============================================================================
