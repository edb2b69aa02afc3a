------------------------------ MODULE MCStores ------------------------------
EXTENDS Stores, TLC

\* Every table, three rows of it at most; no table is told apart from its
\* rows, so that ids, keys, owners and contents are symmetric.
MCTried == Tables

Symmetry == Permutations(Ids) \cup Permutations(Keys) \cup Permutations(Owners) \cup Permutations(Vals)
=============================================================================
