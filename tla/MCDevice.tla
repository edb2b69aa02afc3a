------------------------------- MODULE MCDevice -------------------------------
(* Instances of Device for TLC. *)
EXTENDS Device

=============================================================================
