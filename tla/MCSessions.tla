------------------------------ MODULE MCSessions ------------------------------
(* Instances of Sessions for TLC. *)
EXTENDS Sessions, TLC

\* Rows and requests are interchangeable: no action tells two of them apart
\* but by their state.
Symmetry == Permutations(Tokens) \cup Permutations(Requests)

\* Bound: with Stores.Tx nil, where every write is a step of its own, nothing
\* is cut off (a request that stands still is as good as cut off for what the
\* others find); with a TxRunner no session is old enough to be extended or
\* is validated, which no transaction is part of.
Small ==
    IF isolation = "none"
      THEN crashes = 0
      ELSE /\ \A t \in Tokens : age[t] # "aged"
           /\ \A r \in Requests : req[r].op # "validate"

=============================================================================
