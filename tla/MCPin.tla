-------------------------------- MODULE MCPin --------------------------------
(* Instances of Pin for TLC. *)
EXTENDS Pin, TLC

\* Attempts and PINs are told apart by nothing but their state. (Init picks a
\* PIN for the attempts not made yet, which SignIn overwrites unread.)
Symmetry == Permutations(Attempts) \cup Permutations(Pins)

=============================================================================
