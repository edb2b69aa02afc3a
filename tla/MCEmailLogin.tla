----------------------------- MODULE MCEmailLogin -----------------------------
(* Instances of EmailLogin for TLC. *)
EXTENDS EmailLogin, TLC

\* Requests are told apart by their state alone.
Symmetry == Permutations(Requests)

=============================================================================
